---- MODULE Spec2Model ----
(***************************************************************************)
(* ControlsClient (src/src/core/client.ts): the connection/protocol        *)
(* manager of footron-controls-client, as a state machine.                 *)
(*                                                                         *)
(* JavaScript runs one task at a time.  A macrotask (a public call, a      *)
(* socket event, a timer) runs to its first suspension; the continuations  *)
(* of the promises it settled then run from the microtask queue, in FIFO   *)
(* order, before the next macrotask starts.  Every action below is one     *)
(* macrotask together with the microtasks it leaves behind (Drain).        *)
(***************************************************************************)
EXTENDS Integers, Sequences, FiniteSets, TLC

\* ---------------------------------------------------------------- bounds
MaxTasks == 2       \* async tasks (app-connection procedures, waiting sends) suspended at once
MaxSockets == 2     \* WebSocket objects that still matter at once, this.socket included
MaxTimers == 1      \* reopen timers pending at once
MaxQueue == 2       \* messageQueueSize given to the constructor
MaxClosed == 2      \* the count of "closed" notifications saturates here
MaxListeners == 2   \* callbacks the host registers as message listeners
MaxRequests == 1    \* sendRequest calls made

\* ------------------------------------------------------------ value sets
Null == "null"
Apps == {"A", "B"}
AppIds == Apps \cup {Null}
Statuses == {"idle", "loading", "open", "closed"}
NoReason == "undefined"
TimeoutReason == "Timed out attempting to connect"
RouterClosedReason == "Connection was closed"
RejectReasons == {"full"}
EmptyInitial == "__start"
Payloads == {EmptyInitial, "m"}
ArrayPayload == "arr"
AllPayloads == Payloads \cup {ArrayPayload}
ResponseBodies == {"r1", "r2"}
Hole == "empty"     \* an empty slot of the array made by new Array(size)

VARIABLES
    status,            \* this.status
    clientAppId,       \* this.clientAppId
    connectionAppId,   \* this.connectionAppId
    paused,            \* this.paused
    messageQueue,      \* this.messageQueue
    loadingTimeout,    \* TRUE iff the timer named by this.loadingTimeoutId is pending
    socket,            \* this.socket: 1, the index it always has here, or 0 when undefined
    socks,             \* the WebSocket objects: readyState and the client's handlers
    reopenTimers,      \* pending setTimeout(this.openSocket, 1000)
    hidden,            \* document.hidden
    visListener,       \* the visibilitychange listener is registered
    mounted,           \* mount() has been called
    tasks,             \* suspended async tasks, oldest first
    statusListeners,   \* the host's callback is in this.statusListeners
    notified,          \* what status listeners were called with during the last step
    closedCount,       \* number of {status: "closed"} notifications so far
    rejectedReason,    \* reason of the rejecting access response delivered so far, if any
    msgListeners,      \* this.messageListeners / messageListenersInfo: the host's callbacks
    delivered,         \* the calls of the host's message listeners during the last step
    lastPushed,        \* the payloads pushed since the queue was last cleared, the last MaxQueue + 1 of them
    requests,          \* this.requests: the correlation ids with a response callback
    calls,             \* the sendRequest calls: how far each is and how its promise settled
    errors,            \* the errors thrown during the last step
    dropped,           \* the last step ignored a response that matched no pending request
    sent               \* the Connect and ApplicationClient envelopes the last step put on the transport

vars == <<status, clientAppId, connectionAppId, paused, messageQueue,
          loadingTimeout, socket, socks, reopenTimers, hidden, visListener,
          mounted, tasks, statusListeners, notified, closedCount,
          rejectedReason, msgListeners, delivered, lastPushed, requests,
          calls, errors, dropped, sent>>

\* ------------------------------------------------ the client as a record
\* The code of one step runs on this record.  microtasks, acting, wire and
\* raised live for one step only: the microtask queue, the history of the
\* task whose continuation runs, the envelopes the step put on the
\* transport and the errors it threw.
Cur ==
    [status |-> status, clientAppId |-> clientAppId,
     connectionAppId |-> connectionAppId, paused |-> paused,
     messageQueue |-> messageQueue, loadingTimeout |-> loadingTimeout,
     socket |-> socket, socks |-> socks, reopenTimers |-> reopenTimers,
     hidden |-> hidden, visListener |-> visListener, mounted |-> mounted,
     tasks |-> tasks, statusListeners |-> statusListeners,
     microtasks |-> <<>>, acting |-> <<>>,
     notified |-> <<>>, wire |-> {}, raised |-> {},
     closedCount |-> closedCount, rejectedReason |-> rejectedReason,
     msgListeners |-> msgListeners, delivered |-> <<>>,
     lastPushed |-> lastPushed, requests |-> requests, calls |-> calls,
     dropped |-> FALSE]

NoSocket == [rs |-> "unused", msgH |-> FALSE, closeH |-> FALSE]
\* A callback that is not in this.messageListeners; ignore is the
\* ignoreEmptyInitialMessage of messageListenersInfo.
NoListener == [on |-> FALSE, ignore |-> TRUE]
\* A sendRequest call not made yet.  at: "unused", "sending" (in
\* sendProtocolMessage), "waiting" (the promise of 741-754 is pending) or
\* "settled"; outcome: "none", "sendError", "timeout" or the body the promise
\* resolved with; timer: the timeout of 742-748 is pending; app: the
\* ConnectionAppId at the time of the call.
NoCall == [at |-> "unused", outcome |-> "none", timer |-> FALSE, app |-> Null]
NewSocket == [rs |-> "connecting", msgH |-> TRUE, closeH |-> TRUE]

Min(a, b) == IF a < b THEN a ELSE b

\* The members of a set of indices, in increasing order.
SeqOf(S) ==
    [k \in 1..Cardinality(S) |->
        CHOOSE i \in S : Cardinality({j \in S : j < i}) = k - 1]

\* A task waits for the open/close event of socket s (socketReady, 346-376).
Waiting(t, s) ==
    /\ t.pc \in {"socketWait", "lifecycleWait", "sendWait"}
    /\ t.settled = "none"
    /\ t.sock = s

Waited(c, s) == \E i \in DOMAIN c.tasks : Waiting(c.tasks[i], s)

\* A task has a status listener registered (455, 480).
Listening(t) ==
    /\ t.pc \in {"accessWait", "firstWait"}
    /\ t.settled = "none"

\* A socket other than this.socket matters while a task waits on it or a
\* handler of the client is attached to it and it can still fire.
Inert(c, s) ==
    /\ ~Waited(c, s)
    /\ \/ c.socks[s].rs \in {"closing", "closed"}
       \/ ~c.socks[s].msgH /\ ~c.socks[s].closeH

\* Socket objects that no longer matter are dropped; a CLOSING or CLOSED
\* socket fires no message event, and closeSocket has detached onSocketClose
\* from a CLOSING one.
Collect(c) ==
    [c EXCEPT
       !.socks = [s \in DOMAIN c.socks |->
                     IF s # c.socket /\ Inert(c, s) THEN NoSocket
                     ELSE IF c.socks[s].rs \in {"closing", "closed"}
                     THEN [rs |-> IF Waited(c, s) THEN c.socks[s].rs ELSE "closed",
                           msgH |-> FALSE, closeH |-> FALSE]
                     ELSE c.socks[s]],
       !.tasks = [i \in DOMAIN c.tasks |->
                     IF \E s \in DOMAIN c.socks : Waiting(c.tasks[i], s)
                     THEN c.tasks[i]
                     ELSE [c.tasks[i] EXCEPT !.sock = 0]]]

\* An error thrown out of a task; superseded tells whether a later setApp
\* call had replaced the task that throws.
Raise(c, err, sup) ==
    [c EXCEPT !.raised = @ \cup {[err |-> err, superseded |-> sup]}]

\* socket.send() of sendProtocolMessage (line 600): the envelope reaches the
\* transport only on an OPEN socket.
Send(c, env) == [c EXCEPT !.wire = @ \cup {env}]

LifecycleEnvelope(p) == [type |-> "lcy", app |-> Null, paused |-> p]
RequestEnvelope(r) == [type |-> "cap", app |-> Null, paused |-> FALSE, req |-> r]
\* The ApplicationClient envelope of sendMessage (712-715): no req.
MessageEnvelope == [type |-> "cap", app |-> Null, paused |-> FALSE, req |-> 0]
\* The Connect envelope of sendConnectionRequest (389-392).
ConnectEnvelope(app) == [type |-> "con", app |-> app, paused |-> FALSE, req |-> 0]

\* ------------------------------------------------------- status handling

\* notifyStatusListeners (882-884).  The listeners are the host's callback,
\* when registered, and those the in-flight tasks registered, each the
\* callback of cancellableConnectionStatusCallback (395-422): it removes the
\* task's listeners and rejects its promise.  The removeListeners of
\* requestAppConnection (443-447) also unsets this.accessCallback, whoever
\* set it.
NotifyStatusListeners(c, result) ==
    LET hit == {i \in DOMAIN c.tasks : Listening(c.tasks[i])}
        outcome == CASE result.status = "closed" -> "closed"
                     [] result.status = "idle" -> "cancelled"
                     [] OTHER -> "illegal"
        unsetCb == \E i \in hit : c.tasks[i].pc = "accessWait"
    IN [c EXCEPT
          !.tasks = [i \in DOMAIN c.tasks |->
                        IF i \in hit
                        THEN [c.tasks[i] EXCEPT !.settled = outcome, !.accessCb = FALSE]
                        ELSE [c.tasks[i] EXCEPT
                                 !.accessCb = IF unsetCb THEN FALSE ELSE @]],
          !.microtasks = @ \o SeqOf(hit),
          !.notified = IF c.statusListeners THEN Append(@, result) ELSE @]

\* What a status listener sees when it is called: the result, the status
\* field and the app ids it reads with getConnectionStatus / getClientAppId /
\* getConnectionAppId, whether the loading timeout is pending, and the
\* history of the procedure whose code made the call (empty when no
\* procedure did).
StatusResult(c, st, reason) ==
    [status |-> st,
     seen |-> c.status,
     reason |-> IF st = "closed" THEN reason ELSE NoReason,
     client |-> c.clientAppId,
     conn |-> c.connectionAppId,
     timer |-> c.loadingTimeout,
     hist |-> c.acting]

\* A setConnectionStatus that calls the listeners before it writes the field.
NotifyThenSetStatus(c, st, reason) ==
    IF st = c.status
    THEN c
    ELSE [NotifyStatusListeners(c, StatusResult(c, st, reason)) EXCEPT
             !.status = st,
             !.closedCount = IF st = "closed" /\ c.statusListeners
                             THEN Min(@ + 1, MaxClosed) ELSE @]

\* setConnectionStatus (214-224)
SetConnectionStatus(c, st, reason) ==
    IF st = c.status
    THEN c
    ELSE LET d == [c EXCEPT !.status = st,
                            !.closedCount = IF st = "closed" /\ c.statusListeners
                                            THEN Min(@ + 1, MaxClosed) ELSE @]
         IN NotifyStatusListeners(d, StatusResult(d, st, reason))

\* clearRequests (757-759): the table is emptied; the timeouts of its
\* entries stay pending and the promises stay as they are.
ClearRequests(c) == [c EXCEPT !.requests = {}]

\* closeSocket (300-314): socket.close() starts the closing handshake; the
\* close event comes later (SocketCloseEvent).
CloseSocket(c) ==
    IF c.socket = 0
    THEN c
    ELSE [c EXCEPT
            !.visListener = IF c.status = "closed" THEN FALSE ELSE @,
            !.socks[c.socket] =
                [@ EXCEPT !.closeH = FALSE,
                          !.rs = IF @ \in {"connecting", "open"} THEN "closing" ELSE @]]

\* close (226-252).  The listener registries are cleared after the
\* notification; the task listeners have all been notified, and so removed,
\* by then.
Close(c, reason) ==
    IF c.status = "closed"
    THEN c
    ELSE [ClearRequests(CloseSocket(SetConnectionStatus(c, "closed", reason))) EXCEPT
             !.statusListeners = FALSE,
             !.msgListeners = [l \in DOMAIN @ |-> NoListener]]

\* startLoadingTimeout / stopLoadingTimeout (258-278)
StopLoadingTimeout(c) == [c EXCEPT !.loadingTimeout = FALSE]
StartLoadingTimeout(c) == [StopLoadingTimeout(c) EXCEPT !.loadingTimeout = TRUE]

\* ----------------------------------------------------------- the socket

\* this.socket keeps index 1.  When openSocket replaces a socket that still
\* matters, that socket moves to a free index, and so do the tasks waiting
\* on it.
FreeSockets(c) == {s \in DOMAIN c.socks : s # 1 /\ c.socks[s].rs = "unused"}

CanOpenSocket(c) == c.socket = 0 \/ Inert(c, 1) \/ FreeSockets(c) # {}

\* openSocket (284-289)
OpenSocket(c) ==
    IF c.socket = 0 \/ Inert(c, 1)
    THEN [c EXCEPT !.socks[1] = NewSocket, !.socket = 1,
                   !.tasks = [i \in DOMAIN c.tasks |->
                                 IF c.tasks[i].sock = 1
                                 THEN [c.tasks[i] EXCEPT !.sock = 0] ELSE c.tasks[i]]]
    ELSE LET to == CHOOSE x \in FreeSockets(c) : \A y \in FreeSockets(c) : x <= y
         IN [c EXCEPT
               !.socks = [s \in DOMAIN c.socks |->
                             IF s = 1 THEN NewSocket
                             ELSE IF s = to THEN c.socks[1] ELSE c.socks[s]],
               !.socket = 1,
               !.tasks = [i \in DOMAIN c.tasks |->
                             IF c.tasks[i].sock = 1
                             THEN [c.tasks[i] EXCEPT !.sock = to] ELSE c.tasks[i]]]

\* socketReady (332-381) up to its await: "ready", "wait" (CONNECTING) or
\* "unavailable" (undefined, CLOSING or CLOSED).
SocketReady(c) ==
    IF c.socket = 0 THEN "unavailable"
    ELSE CASE c.socks[c.socket].rs = "open" -> "ready"
           [] c.socks[c.socket].rs = "connecting" -> "wait"
           [] OTHER -> "unavailable"

\* ------------------------------------------------------------ the queue

\* clearMessageQueue (718-724)
ClearMessageQueue(c) == [c EXCEPT !.messageQueue = <<>>, !.lastPushed = <<>>]

\* What messageIsEmptyInitial looks at in a payload: EmptyInitial is the
\* object {__start: ...}, "m" an object without that key, ArrayPayload the
\* array ["__start"], which JSON.parse gives no __start property.
Shape(body) ==
    CASE body = EmptyInitial -> [typeof |-> "object", null |-> FALSE, array |-> FALSE, start |-> TRUE]
      [] body = ArrayPayload -> [typeof |-> "object", null |-> FALSE, array |-> TRUE, start |-> FALSE]
      [] OTHER -> [typeof |-> "object", null |-> FALSE, array |-> FALSE, start |-> FALSE]

\* A test that takes no payload for the empty initial message.
NeverEmptyInitial(body) == FALSE

\* messageIsEmptyInitial (833-840)
MessageIsEmptyInitial(body) ==
    /\ Shape(body).typeof = "object"
    /\ ~Shape(body).null
    /\ ~Shape(body).array
    /\ Shape(body).start

\* A queue that gives up its newest entries instead of its oldest.
KeepOldest(q, size) == IF Len(q) > size THEN SubSeq(q, 1, size) ELSE q

\* The while loop of pushMessageQueue (626-631): shift() while the array is
\* longer than messageQueueSize.
RECURSIVE ShiftWhileLonger(_, _)
ShiftWhileLonger(q, size) ==
    IF Len(q) > size THEN ShiftWhileLonger(Tail(q), size) ELSE q

\* The last n elements of a sequence.
LastN(q, n) == IF Len(q) > n THEN SubSeq(q, Len(q) - n + 1, Len(q)) ELSE q

\* pushMessageQueue (623-632)
PushMessageQueue(c, body) ==
    [c EXCEPT !.messageQueue = ShiftWhileLonger(Append(@, body), MaxQueue),
              !.lastPushed = LastN(Append(@, body), MaxQueue + 1)]

\* ------------------------------------------------------------ the tasks

NewTask(kind, pc) ==
    [kind |-> kind, pc |-> pc, sock |-> 0, settled |-> "none",
     reason |-> NoReason, env |-> LifecycleEnvelope(FALSE), accessCb |-> FALSE,
     hist |-> <<>>, superseded |-> FALSE]

\* A task ends: it leaves the list, and the indices of the younger tasks in
\* the microtask queue move down by one.
Finish(c, i) ==
    [c EXCEPT
       !.tasks = [k \in 1..(Len(c.tasks) - 1) |->
                     IF k < i THEN c.tasks[k] ELSE c.tasks[k + 1]],
       !.microtasks = [k \in DOMAIN c.microtasks |->
                          IF c.microtasks[k] > i THEN c.microtasks[k] - 1
                          ELSE c.microtasks[k]]]

\* The send of sendProtocolMessage after its readiness wait (600-602), on
\* whatever this.socket is by then: WebSocket.send throws on a CONNECTING
\* socket and silently discards the data on a CLOSING or CLOSED one.
SendOutcome(c) ==
    CASE c.socks[c.socket].rs = "open" -> "sent"
      [] c.socks[c.socket].rs = "connecting" -> "invalidState"
      [] OTHER -> "dropped"

\* waitForFirstMessage (459-482): addMessageListener replays the buffered
\* queue to firstMessageCallback at once (queueCount defaults to the queue
\* size, 812-825; forEach skips empty slots), which resolves the wait.
WaitForFirstMessage(c, i) ==
    LET replay == \E k \in DOMAIN c.messageQueue : c.messageQueue[k] # Hole IN
    [c EXCEPT
       !.tasks[i] = [@ EXCEPT !.pc = "firstWait",
                              !.settled = IF replay THEN "ok" ELSE "none",
                              !.hist = IF replay THEN Append(@, "msg") ELSE @],
       !.microtasks = IF replay THEN Append(@, i) ELSE @]

\* requestAppConnection (424-457)
RequestAppConnection(c, i) ==
    [c EXCEPT
       !.tasks = [k \in DOMAIN c.tasks |->
                     IF k = i
                     THEN [c.tasks[k] EXCEPT !.pc = "accessWait", !.settled = "none",
                                             !.accessCb = TRUE]
                     ELSE [c.tasks[k] EXCEPT !.accessCb = FALSE]]]

\* sendLifecycleMessage(this.paused) of line 525 (765-774, 590-603), then
\* waitForFirstMessage.
SendLifecycleThenWait(c, i) ==
    IF c.connectionAppId = Null
    THEN WaitForFirstMessage(c, i)
    ELSE CASE SocketReady(c) = "ready" ->
                WaitForFirstMessage(
                    [Send(c, LifecycleEnvelope(c.paused)) EXCEPT
                        !.tasks[i].hist = Append(@, "lcy")], i)
           [] SocketReady(c) = "wait" ->
                [c EXCEPT !.tasks[i] =
                    [@ EXCEPT !.pc = "lifecycleWait", !.settled = "none",
                              !.sock = c.socket,
                              !.env = LifecycleEnvelope(c.paused)]]
           [] OTHER ->
                Finish(Raise(c, "socketUnavailable", c.tasks[i].superseded), i)

\* The lifecycle envelope after the readiness wait, then waitForFirstMessage.
ResumeLifecycle(c, i) ==
    CASE SendOutcome(c) = "sent" ->
            WaitForFirstMessage(
                [Send(c, c.tasks[i].env) EXCEPT !.tasks[i].hist = Append(@, "lcy")], i)
      [] SendOutcome(c) = "invalidState" ->
            Finish(Raise(c, "invalidState", c.tasks[i].superseded), i)
      [] OTHER -> WaitForFirstMessage(c, i)

\* Settle without the promise's rule that only its first settlement counts.
SettleOverwrites(c, r, outcome) ==
    [c EXCEPT !.calls[r] = [@ EXCEPT !.at = "settled", !.outcome = outcome]]

\* A promise settles once: resolve and reject do nothing on a settled one.
Settle(c, r, outcome) ==
    IF c.calls[r].at = "settled"
    THEN c
    ELSE [c EXCEPT !.calls[r] = [@ EXCEPT !.at = "settled", !.outcome = outcome]]

\* sendRequest after its send (741-754): the timeout is armed and the
\* response callback enters the table.
RegisterRequest(c, r) ==
    [c EXCEPT !.calls[r] = [@ EXCEPT !.at = "waiting", !.timer = TRUE],
              !.requests = @ \cup {r}]

\* What the caller of sendProtocolMessage does once the send has returned:
\* pause() clears the queue (784), sendRequest registers the request.
SendDone(c, kind, env) ==
    CASE kind = "pause" -> ClearMessageQueue(c)
      [] kind = "request" -> RegisterRequest(c, env.req)
      [] OTHER -> c

\* sendProtocolMessage threw: the caller's promise rejects with the error,
\* and the rest of the caller does not run.
SendFailed(c, kind, env, err) ==
    IF kind = "request"
    THEN Settle(Raise(c, err, FALSE), env.req, "sendError")
    ELSE Raise(c, err, FALSE)

\* A send that waited for the socket (setPaused, sendRequest).
ResumeSend(c, i) ==
    LET t == c.tasks[i]
    IN Finish(CASE SendOutcome(c) = "sent" -> SendDone(Send(c, t.env), t.kind, t.env)
                [] SendOutcome(c) = "invalidState" ->
                       SendFailed(c, t.kind, t.env, "invalidState")
                [] OTHER -> SendDone(c, t.kind, t.env), i)

\* The continuation of task i, whose awaited promise has settled.
ContinueTask(c, i) ==
    LET t == c.tasks[i] IN
    CASE t.settled \in {"closed", "illegal", "sockclosed"} ->
            \* startAppConnection rethrows (549); so do the waiting sends
            IF t.kind = "conn"
            THEN Finish(Raise(c, t.settled, t.superseded), i)
            ELSE Finish(SendFailed(c, t.kind, t.env, t.settled), i)
      [] t.settled = "cancelled" ->
            \* 543-547
            Finish(StopLoadingTimeout(c), i)
      [] t.settled = "rejected" ->
            \* 520-523
            Finish(Close(c, t.reason), i)
      [] t.pc = "socketWait" -> RequestAppConnection(c, i)
      [] t.pc = "accessWait" -> SendLifecycleThenWait(c, i)
      [] t.pc = "lifecycleWait" -> ResumeLifecycle(c, i)
      [] t.pc = "firstWait" ->
            \* 539-541
            Finish(SetConnectionStatus(StopLoadingTimeout(c), "open", NoReason), i)
      [] OTHER -> ResumeSend(c, i)

Continue(c, i) ==
    [ContinueTask([c EXCEPT !.acting = c.tasks[i].hist], i) EXCEPT !.acting = <<>>]

\* startAppConnection (484-551) up to its first await.
StartAppConnection(c) ==
    LET c1 == ClearRequests(ClearMessageQueue(c))
        c2 == SetConnectionStatus(c1, "loading", NoReason)
        c3 == StartLoadingTimeout(c2)
        c4 == [c3 EXCEPT !.connectionAppId = Null]
        ready == SocketReady(c4)
        t == [NewTask("conn", "socketWait") EXCEPT
                 !.sock = IF ready = "wait" THEN c4.socket ELSE 0,
                 !.settled = IF ready = "ready" THEN "ok" ELSE "none",
                 !.hist = <<"loading">>]
    IN IF ready = "unavailable"
       THEN Raise(c4, "socketUnavailable", FALSE)
       ELSE [c4 EXCEPT !.tasks = Append(@, t),
                       !.microtasks = IF ready = "ready"
                                      THEN Append(@, Len(c4.tasks) + 1) ELSE @]

\* setApp up to its first await (562-576): every procedure still in flight
\* is the "previous" one from here on.
SetAppSync(c, appId) ==
    LET c0 == [c EXCEPT
                 !.tasks = [k \in DOMAIN c.tasks |->
                               IF c.tasks[k].kind = "conn"
                               THEN [c.tasks[k] EXCEPT !.superseded = TRUE]
                               ELSE c.tasks[k]],
                 !.clientAppId = appId]
        c1 == SetConnectionStatus(c0, "idle", NoReason)
    IN IF appId = Null
       THEN [c1 EXCEPT !.connectionAppId = Null]
       ELSE StartAppConnection(c1)

\* A send through sendProtocolMessage (590-603) from a call that is not part
\* of an app-connection procedure.
SendProtocolMessage(c, kind, env) ==
    CASE SocketReady(c) = "ready" -> SendDone(Send(c, env), kind, env)
      [] SocketReady(c) = "wait" ->
            [c EXCEPT !.tasks = Append(@,
                [NewTask(kind, "sendWait") EXCEPT !.sock = c.socket, !.env = env])]
      [] OTHER -> SendFailed(c, kind, env, "socketUnavailable")

\* The microtask queue runs until it is empty.
RECURSIVE Drain(_)
Drain(c) ==
    IF c.microtasks = <<>>
    THEN c
    ELSE Drain(Continue([c EXCEPT !.microtasks = Tail(@)], Head(c.microtasks)))

\* The state a macrotask leaves behind.
Commit(d) ==
    \E c \in {Collect(Drain(d))} :
    /\ status' = c.status
    /\ clientAppId' = c.clientAppId
    /\ connectionAppId' = c.connectionAppId
    /\ paused' = c.paused
    /\ messageQueue' = c.messageQueue
    /\ loadingTimeout' = c.loadingTimeout
    /\ socket' = c.socket
    /\ socks' = c.socks
    /\ reopenTimers' = c.reopenTimers
    /\ hidden' = c.hidden
    /\ visListener' = c.visListener
    /\ mounted' = c.mounted
    /\ tasks' = c.tasks
    /\ statusListeners' = c.statusListeners
    /\ notified' = c.notified
    /\ closedCount' = c.closedCount
    /\ rejectedReason' = c.rejectedReason
    /\ msgListeners' = c.msgListeners
    /\ delivered' = c.delivered
    /\ lastPushed' = c.lastPushed
    /\ requests' = c.requests
    /\ calls' = c.calls
    /\ errors' = {r.err : r \in c.raised}
    /\ dropped' = c.dropped
    /\ sent' = {e \in c.wire : e.type \in {"con", "cap"}}

\* -------------------------------------------------------------- actions

\* The state the constructor leaves (140-170): new Array(size) makes the
\* queue an array of size empty slots.
Init ==
    /\ status = "idle"
    /\ clientAppId = Null
    /\ connectionAppId = Null
    /\ paused = FALSE
    /\ messageQueue = [k \in 1..MaxQueue |-> Hole]
    /\ loadingTimeout = FALSE
    /\ socket = 0
    /\ socks = [s \in 1..MaxSockets |-> NoSocket]
    /\ reopenTimers = 0
    /\ hidden = FALSE
    /\ visListener = FALSE
    /\ mounted = FALSE
    /\ tasks = <<>>
    /\ statusListeners = FALSE
    /\ notified = <<>>
    /\ closedCount = 0
    /\ rejectedReason = NoReason
    /\ msgListeners = [l \in 1..MaxListeners |-> NoListener]
    /\ delivered = <<>>
    /\ lastPushed = <<>>
    /\ requests = {}
    /\ calls = [r \in 1..MaxRequests |-> NoCall]
    /\ errors = {}
    /\ dropped = FALSE
    /\ sent = {}

\* mount (203-208)
Mount ==
    /\ ~mounted
    /\ Commit([OpenSocket(Cur) EXCEPT !.visListener = TRUE, !.mounted = TRUE])

\* unmount (210-212)
Unmount ==
    /\ mounted
    /\ Commit(Close(Cur, NoReason))

\* setApp (562-576)
SetApp(appId) ==
    /\ appId # Null => Len(tasks) < MaxTasks
    /\ Commit(SetAppSync(Cur, appId))

\* A visibility handler that reopens the socket of a page that is visible
\* again without running the app-connection procedure.
VisibilityChangeReopensOnly ==
    /\ visListener
    /\ IF ~hidden
       THEN Commit(CloseSocket([Cur EXCEPT !.hidden = TRUE]))
       ELSE IF clientAppId # Null
            THEN /\ CanOpenSocket(Cur)
                 /\ Commit(OpenSocket([Cur EXCEPT !.hidden = FALSE]))
            ELSE Commit([Cur EXCEPT !.hidden = FALSE])

\* visibilityHandler (291-298), on a visibilitychange event
VisibilityChange ==
    /\ visListener
    /\ IF ~hidden
       THEN Commit(CloseSocket([Cur EXCEPT !.hidden = TRUE]))
       ELSE IF clientAppId # Null
            THEN /\ CanOpenSocket(Cur) /\ Len(tasks) < MaxTasks
                 /\ Commit(StartAppConnection(OpenSocket([Cur EXCEPT !.hidden = FALSE])))
            ELSE Commit([Cur EXCEPT !.hidden = FALSE])

\* The open event of socket s: the openCallback of every socketReady that
\* waits on it (357-360).
SocketOpenEvent(s) ==
    /\ socks[s].rs = "connecting"
    /\ LET c == Cur
           w == {i \in DOMAIN c.tasks : Waiting(c.tasks[i], s)}
       IN Commit([c EXCEPT
                    !.socks[s].rs = "open",
                    !.tasks = [i \in DOMAIN c.tasks |->
                                  IF i \in w THEN [c.tasks[i] EXCEPT !.settled = "ok"]
                                  ELSE c.tasks[i]],
                    !.microtasks = @ \o SeqOf(w)])

\* onSocketClose (316-330): the handlers it removes are those of this.socket,
\* whichever socket the close event is of.
OnSocketClose(c) ==
    IF c.status = "closed"
    THEN c
    ELSE [c EXCEPT !.socks[c.socket] = [@ EXCEPT !.msgH = FALSE, !.closeH = FALSE],
                   !.reopenTimers = @ + 1]

\* The close event of socket s: onSocketClose when it is still attached,
\* then the closeCallback of every socketReady that waits on s (361-368).
SocketCloseEvent(s) ==
    /\ socks[s].rs \in {"connecting", "open", "closing"}
    /\ (socks[s].closeH /\ status # "closed") => reopenTimers < MaxTimers
    /\ LET c == Cur
           w == {i \in DOMAIN c.tasks : Waiting(c.tasks[i], s)}
           c1 == IF c.socks[s].closeH THEN OnSocketClose(c) ELSE c
       IN Commit([c1 EXCEPT
                    !.socks[s].rs = "closed",
                    !.tasks = [i \in DOMAIN c.tasks |->
                                  IF i \in w THEN [c.tasks[i] EXCEPT !.settled = "sockclosed"]
                                  ELSE c.tasks[i]],
                    !.microtasks = @ \o SeqOf(w)])

\* The reopen timer of onSocketClose fires (329): openSocket.
ReopenTimerFires ==
    /\ reopenTimers > 0
    /\ CanOpenSocket(Cur)
    /\ Commit(OpenSocket([Cur EXCEPT !.reopenTimers = @ - 1]))

\* The loading timeout fires (262-268).
LoadingTimeoutFires ==
    /\ loadingTimeout
    /\ Commit(Close([Cur EXCEPT !.loadingTimeout = FALSE], TimeoutReason))

\* onMessage (634-657) for an access envelope received on socket s.
ReceiveAccess(s, app, accepted, reason) ==
    /\ socks[s].rs = "open" /\ socks[s].msgH
    /\ LET c == Cur
           cb == {i \in DOMAIN c.tasks : c.tasks[i].accessCb}
       IN IF app = Null
          THEN Commit(Close(c, RouterClosedReason))
          ELSE IF cb = {}
          THEN Commit(Raise(c, "accessWithoutRequest", FALSE))
          ELSE IF app # c.clientAppId
          THEN Commit(Raise(c, "accessForOtherApp", FALSE))
          ELSE LET i == CHOOSE k \in cb : TRUE IN
               \* accessCallback (431-441)
               Commit([c EXCEPT
                  !.connectionAppId = IF accepted THEN app ELSE Null,
                  !.tasks[i] = [@ EXCEPT
                      !.accessCb = FALSE,
                      !.settled = IF accepted THEN "ok" ELSE "rejected",
                      !.reason = IF accepted THEN NoReason ELSE reason,
                      !.hist = IF accepted THEN Append(@, "access") ELSE @],
                  !.microtasks = Append(@, i),
                  !.rejectedReason = IF accepted THEN @ ELSE reason])

\* notifyMessageListeners (847-864) for the host's callbacks: all of them,
\* or for the empty initial message those registered with
\* ignoreEmptyInitialMessage = false.
NotifyMessageListeners(c, body) ==
    LET to == {l \in DOMAIN c.msgListeners :
                  /\ c.msgListeners[l].on
                  /\ MessageIsEmptyInitial(body) => ~c.msgListeners[l].ignore}
    IN [c EXCEPT !.delivered =
            @ \o [k \in 1..Cardinality(to) |->
                     [to |-> SeqOf(to)[k], body |-> body, replay |-> FALSE,
                      count |-> 0]]]

\* A router that handles an application message whatever ConnectionAppId is.
ReceiveAppUnguarded(s, body) ==
    /\ socks[s].rs = "open" /\ socks[s].msgH
    /\ LET c == Cur
           w == {i \in DOMAIN c.tasks :
                    c.tasks[i].pc = "firstWait" /\ c.tasks[i].settled = "none"}
           c1 == NotifyMessageListeners(
                     IF MessageIsEmptyInitial(body) THEN c
                     ELSE PushMessageQueue(c, body), body)
       IN Commit([c1 EXCEPT
                    !.tasks = [i \in DOMAIN c.tasks |->
                                  IF i \in w
                                  THEN [c.tasks[i] EXCEPT !.settled = "ok",
                                                          !.hist = Append(@, "msg")]
                                  ELSE c.tasks[i]],
                    !.microtasks = @ \o SeqOf(w)])

\* onMessage (634-703) for an application envelope without a correlation id
\* received on socket s; notifyMessageListeners (847-864) also reaches the
\* firstMessageCallback of every waitForFirstMessage, which listens with
\* ignoreEmptyInitialMessage = false.
ReceiveApp(s, body) ==
    /\ socks[s].rs = "open" /\ socks[s].msgH
    /\ LET c == Cur
           w == {i \in DOMAIN c.tasks :
                    c.tasks[i].pc = "firstWait" /\ c.tasks[i].settled = "none"}
       IN IF c.connectionAppId = Null
          THEN Commit(Raise(c, "currentAppUnknown", FALSE))
          ELSE IF c.connectionAppId # c.clientAppId
          THEN Commit(Raise(c, "appIdsDiffer", FALSE))
          ELSE LET c1 == NotifyMessageListeners(
                             IF MessageIsEmptyInitial(body) THEN c
                             ELSE PushMessageQueue(c, body), body)
               IN Commit([c1 EXCEPT
                    !.tasks = [i \in DOMAIN c.tasks |->
                                  IF i \in w
                                  THEN [c.tasks[i] EXCEPT !.settled = "ok",
                                                          !.hist = Append(@, "msg")]
                                  ELSE c.tasks[i]],
                    !.microtasks = @ \o SeqOf(w)])

\* addStatusListener (870-872), by the host
AddStatusListener ==
    /\ ~statusListeners
    /\ Commit([Cur EXCEPT !.statusListeners = TRUE])

\* removeStatusListener (874-876), by the host
RemoveStatusListener ==
    /\ statusListeners
    /\ Commit([Cur EXCEPT !.statusListeners = FALSE])

\* A router that treats a response without a pending request as an
\* application message.
ReceiveResponseUnmatchedDelivered(s, r, body) ==
    /\ socks[s].rs = "open" /\ socks[s].msgH
    /\ LET c == Cur
       IN IF c.connectionAppId = Null
          THEN Commit(Raise(c, "currentAppUnknown", FALSE))
          ELSE IF c.connectionAppId # c.clientAppId
          THEN Commit(Raise(c, "appIdsDiffer", FALSE))
          ELSE IF r \notin c.requests
          THEN Commit(NotifyMessageListeners(
                          PushMessageQueue([c EXCEPT !.dropped = TRUE], body), body))
          ELSE Commit(Settle([c EXCEPT !.calls[r].timer = FALSE], r, body))

\* onMessage (634-694) for an application envelope with correlation id r
\* received on socket s; the response callback (750-753) clears the timeout
\* and resolves the promise.
ReceiveResponse(s, r, body) ==
    /\ socks[s].rs = "open" /\ socks[s].msgH
    /\ LET c == Cur
       IN IF c.connectionAppId = Null
          THEN Commit(Raise(c, "currentAppUnknown", FALSE))
          ELSE IF c.connectionAppId # c.clientAppId
          THEN Commit(Raise(c, "appIdsDiffer", FALSE))
          ELSE IF r \notin c.requests
          THEN Commit([c EXCEPT !.dropped = TRUE])
          ELSE Commit(Settle([c EXCEPT !.calls[r].timer = FALSE], r, body))

\* onMessage (634-703) for an envelope of any other type than Access,
\* Heartbeat and ApplicationApp, received on socket s: past the two checks of
\* ConnectionAppId no branch takes it.
ReceiveOther(s) ==
    /\ socks[s].rs = "open" /\ socks[s].msgH
    /\ LET c == Cur
       IN IF c.connectionAppId = Null
          THEN Commit(Raise(c, "currentAppUnknown", FALSE))
          ELSE IF c.connectionAppId # c.clientAppId
          THEN Commit(Raise(c, "appIdsDiffer", FALSE))
          ELSE Commit(c)

\* sendRequest (730-755) with the next correlation id
SendRequest(r) ==
    /\ calls[r].at = "unused"
    /\ \A q \in 1..(r - 1) : calls[q].at # "unused"
    /\ SocketReady(Cur) = "wait" => Len(tasks) < MaxTasks
    /\ Commit(SendProtocolMessage(
                 [Cur EXCEPT !.calls[r] = [@ EXCEPT !.at = "sending",
                                                    !.app = connectionAppId]],
                 "request", RequestEnvelope(r)))

\* The timeout of a request fires (742-748): the promise is rejected.
RequestTimeoutFires(r) ==
    /\ calls[r].timer
    /\ Commit(Settle([Cur EXCEPT !.calls[r].timer = FALSE], r, "timeout"))

\* sendMessage (705-716)
SendMessage ==
    LET c == Cur
    IN IF c.connectionAppId = Null
       THEN Commit(Raise(c, "notAuthenticated", FALSE))
       ELSE /\ SocketReady(c) = "wait" => Len(tasks) < MaxTasks
            /\ Commit(SendProtocolMessage(c, "message", MessageEnvelope))

\* The interval of requestAppConnection (425-428) is pending for the
\* procedure t: clearInterval is in removeListeners (443-447), which runs
\* when the access callback or the status callback of the procedure is called.
IntervalArmed(t) == t.kind = "conn" /\ t.pc = "accessWait" /\ t.settled = "none"

\* The connect-polling interval of the procedure tasks[i] fires:
\* sendConnectionRequest (387-393).
SendConnectionRequest(i) ==
    /\ i \in DOMAIN tasks /\ IntervalArmed(tasks[i])
    /\ SocketReady(Cur) = "wait" => Len(tasks) < MaxTasks
    /\ Commit(SendProtocolMessage(Cur, "connect", ConnectEnvelope(clientAppId)))

\* A registration that replays the whole queue whatever queueCount says.
AddMessageListenerAll(l, queueCount, ignore) ==
    LET c == Cur
        kept == SelectSeq(c.messageQueue, LAMBDA b : b # Hole)
    IN Commit([c EXCEPT
                 !.msgListeners[l] = [on |-> TRUE, ignore |-> ignore],
                 !.delivered = IF queueCount = 0 THEN @
                               ELSE @ \o [k \in DOMAIN kept |->
                                             [to |-> l, body |-> kept[k], replay |-> TRUE,
                                              count |-> queueCount]]])

\* addMessageListener (806-826): slice(0, queueCount).forEach calls the
\* listener with the first queueCount elements of the queue, skipping the
\* empty slots.
AddMessageListener(l, queueCount, ignore) ==
    LET c == Cur
        slice == SubSeq(c.messageQueue, 1, Min(queueCount, Len(c.messageQueue)))
        kept == SelectSeq(slice, LAMBDA b : b # Hole)
    IN Commit([c EXCEPT
                 !.msgListeners[l] = [on |-> TRUE, ignore |-> ignore],
                 !.delivered = IF queueCount = 0 THEN @
                               ELSE @ \o [k \in DOMAIN kept |->
                                             [to |-> l, body |-> kept[k], replay |-> TRUE,
                                              count |-> queueCount]]])

\* removeMessageListener (828-831)
RemoveMessageListener(l) ==
    /\ msgListeners[l].on
    /\ Commit([Cur EXCEPT !.msgListeners[l] = NoListener])

\* pause / unpause (776-789)
SetPaused(p) ==
    LET c == [Cur EXCEPT !.paused = p]
        kind == IF p THEN "pause" ELSE "unpause"
    IN IF c.connectionAppId = Null
       THEN Commit(IF p THEN ClearMessageQueue(c) ELSE c)
       ELSE /\ SocketReady(c) = "wait" => Len(tasks) < MaxTasks
            /\ Commit(SendProtocolMessage(c, kind, LifecycleEnvelope(p)))

\* The steps of the client and of its environment.  pause and unpause
\* (SetPaused) are not among them: the properties below do not turn on the
\* Paused flag, which stays false here.
Next ==
    \/ Mount
    \/ Unmount
    \/ \E appId \in AppIds : SetApp(appId)
    \/ VisibilityChange
    \/ \E s \in 1..MaxSockets : SocketOpenEvent(s)
    \/ \E s \in 1..MaxSockets : SocketCloseEvent(s)
    \/ ReopenTimerFires
    \/ LoadingTimeoutFires
    \/ \E s \in 1..MaxSockets, app \in AppIds, accepted \in BOOLEAN, r \in RejectReasons :
          ReceiveAccess(s, app, accepted, r)
    \/ \E s \in 1..MaxSockets, body \in Payloads : ReceiveApp(s, body)
    \/ AddStatusListener
    \/ RemoveStatusListener

Spec == Init /\ [][Next]_vars

\* The message queue and the host's message listeners, over a connection
\* whose page stays visible.
QueueNext ==
    \/ Mount
    \/ Unmount
    \/ \E appId \in AppIds : SetApp(appId)
    \/ \E s \in 1..MaxSockets : SocketOpenEvent(s)
    \/ \E s \in 1..MaxSockets : SocketCloseEvent(s)
    \/ ReopenTimerFires
    \/ LoadingTimeoutFires
    \/ \E s \in 1..MaxSockets, app \in AppIds, accepted \in BOOLEAN, r \in RejectReasons :
          ReceiveAccess(s, app, accepted, r)
    \/ \E s \in 1..MaxSockets, body \in AllPayloads : ReceiveApp(s, body)
    \/ \E l \in 1..MaxListeners, queueCount \in 0..MaxQueue, ignore \in BOOLEAN :
          AddMessageListener(l, queueCount, ignore)
    \/ \E l \in 1..MaxListeners : RemoveMessageListener(l)

QueueSpec == Init /\ [][QueueNext]_vars

\* Requests and their responses over the same connection, with one message
\* listener of the host.
RequestNext ==
    \/ Mount
    \/ Unmount
    \/ \E appId \in AppIds : SetApp(appId)
    \/ \E s \in 1..MaxSockets : SocketOpenEvent(s)
    \/ \E s \in 1..MaxSockets : SocketCloseEvent(s)
    \/ ReopenTimerFires
    \/ LoadingTimeoutFires
    \/ \E s \in 1..MaxSockets, app \in AppIds, accepted \in BOOLEAN, r \in RejectReasons :
          ReceiveAccess(s, app, accepted, r)
    \/ \E s \in 1..MaxSockets, body \in Payloads : ReceiveApp(s, body)
    \/ \E s \in 1..MaxSockets, r \in 1..MaxRequests, body \in ResponseBodies :
          ReceiveResponse(s, r, body)
    \/ \E s \in 1..MaxSockets : ReceiveOther(s)
    \/ \E r \in 1..MaxRequests : SendRequest(r)
    \/ \E r \in 1..MaxRequests : RequestTimeoutFires(r)
    \/ \E queueCount \in 0..MaxQueue, ignore \in BOOLEAN :
          AddMessageListener(1, queueCount, ignore)
    \/ RemoveMessageListener(1)

RequestSpec == Init /\ [][RequestNext]_vars

\* The connection with the page's visibility changes and application
\* messages, without listeners of the host.
VisibilityNext ==
    \/ Mount
    \/ Unmount
    \/ \E appId \in AppIds : SetApp(appId)
    \/ VisibilityChange
    \/ \E s \in 1..MaxSockets : SocketOpenEvent(s)
    \/ \E s \in 1..MaxSockets : SocketCloseEvent(s)
    \/ ReopenTimerFires
    \/ LoadingTimeoutFires
    \/ \E s \in 1..MaxSockets, app \in AppIds, accepted \in BOOLEAN, r \in RejectReasons :
          ReceiveAccess(s, app, accepted, r)
    \/ \E s \in 1..MaxSockets, body \in Payloads : ReceiveApp(s, body)

VisibilitySpec == Init /\ [][VisibilityNext]_vars

\* The connection with a status listener of the host, over a page that
\* stays visible.
StatusNext ==
    \/ Mount
    \/ Unmount
    \/ \E appId \in AppIds : SetApp(appId)
    \/ \E s \in 1..MaxSockets : SocketOpenEvent(s)
    \/ \E s \in 1..MaxSockets : SocketCloseEvent(s)
    \/ ReopenTimerFires
    \/ LoadingTimeoutFires
    \/ \E s \in 1..MaxSockets, app \in AppIds, accepted \in BOOLEAN, r \in RejectReasons :
          ReceiveAccess(s, app, accepted, r)
    \/ \E s \in 1..MaxSockets, body \in Payloads : ReceiveApp(s, body)
    \/ AddStatusListener
    \/ RemoveStatusListener

StatusSpec == Init /\ [][StatusNext]_vars

\* The connection core with the three senders: sendMessage, sendRequest and
\* the connect-polling interval.
SendNext ==
    \/ Mount
    \/ Unmount
    \/ \E appId \in AppIds : SetApp(appId)
    \/ \E s \in 1..MaxSockets : SocketOpenEvent(s)
    \/ \E s \in 1..MaxSockets : SocketCloseEvent(s)
    \/ ReopenTimerFires
    \/ LoadingTimeoutFires
    \/ \E s \in 1..MaxSockets, app \in AppIds, accepted \in BOOLEAN, r \in RejectReasons :
          ReceiveAccess(s, app, accepted, r)
    \/ \E s \in 1..MaxSockets, body \in Payloads : ReceiveApp(s, body)
    \/ SendMessage
    \/ \E r \in 1..MaxRequests : SendRequest(r)
    \/ \E i \in 1..MaxTasks : SendConnectionRequest(i)

SendSpec == Init /\ [][SendNext]_vars

\* pause() and unpause() over the same connection.
PauseNext ==
    \/ Mount
    \/ Unmount
    \/ \E appId \in AppIds : SetApp(appId)
    \/ \E s \in 1..MaxSockets : SocketOpenEvent(s)
    \/ \E s \in 1..MaxSockets : SocketCloseEvent(s)
    \/ ReopenTimerFires
    \/ LoadingTimeoutFires
    \/ \E s \in 1..MaxSockets, app \in AppIds, accepted \in BOOLEAN, r \in RejectReasons :
          ReceiveAccess(s, app, accepted, r)
    \/ \E s \in 1..MaxSockets, body \in Payloads : ReceiveApp(s, body)
    \/ \E p \in BOOLEAN : SetPaused(p)

PauseSpec == Init /\ [][PauseNext]_vars

\* ---------------------------------------------------------------- claims

ConnTasks == {i \in DOMAIN tasks : tasks[i].kind = "conn"}

\* A socket that is connecting or open with the client's message handler
\* attached.
ActiveSockets(sk) ==
    {s \in DOMAIN sk : sk[s].rs \in {"connecting", "open"} /\ sk[s].msgH}

ConnectingSockets(sk) == {s \in DOMAIN sk : sk[s].rs = "connecting"}

\* C1: closed is terminal: once status is "closed", no later step changes
\* it.
C1_ClosedIsTerminal == [][status = "closed" => status' = "closed"]_vars

\* C2: ConnectionAppId is null or equal to ClientAppId, in every state
\* between two steps and in every state a status listener is called in.
C2_ConnectionAppIdNeverStale ==
    /\ connectionAppId \in {Null, clientAppId}
    /\ \A k \in DOMAIN notified : notified[k].conn \in {Null, notified[k].client}

\* C3: a setApp(newId) call cancels the app-connection procedure in
\* flight, wherever it is suspended: with an app requested, a procedure that
\* a later setApp call replaced is not in the access negotiation (whose
\* interval polls connect envelopes) or beyond.
C3_SetAppCancelsPrevious ==
    clientAppId # Null =>
        \A i \in ConnTasks :
            tasks[i].superseded =>
                tasks[i].pc \notin {"accessWait", "lifecycleWait", "firstWait"}

\* C4: after setApp(null) with a procedure in flight, status is "idle" and
\* the loading timeout is disarmed.
C4_SetAppNullDisarmsTimeout ==
    (status = "idle" /\ clientAppId = Null /\ ConnTasks # {}) => ~loadingTimeout

\* C5: while status is "loading" the loading timeout is pending, so that
\* the status becomes "closed" when the period elapses; also after a setApp
\* call that replaced a negotiation in flight.
C5_LoadingHasTimeout == status = "loading" => loadingTimeout

\* C6: the status listeners get exactly one "closed" notification, however
\* many times close is called.
C6_CloseNotifiesOnce == closedCount <= 1

\* C7: at most one transport is active at any time.
C7_AtMostOneActiveTransport == Cardinality(ActiveSockets(socks)) <= 1

\* C8: once status is "closed", the mounted client opens no new socket.
C8_NoReopenAfterClosed ==
    [][(status = "closed" /\ mounted) =>
          Cardinality(ConnectingSockets(socks')) <= Cardinality(ConnectingSockets(socks))]_vars

\* C9: every notification of "open" comes from a procedure that, in this
\* order, set "loading", received an accepted access response for the
\* requested app, sent its Lifecycle envelope and got a first application
\* message; and the loading timeout is disarmed when it is made.
C9_OpenOnlyAfterHandshake ==
    \A k \in DOMAIN notified :
        notified[k].status = "open" =>
            /\ notified[k].hist = <<"loading", "access", "lcy", "msg">>
            /\ ~notified[k].timer

\* C10: the step that delivers the first rejecting access response for the
\* requested app leaves status "closed", and from then on ConnectionAppId
\* is null and status is not "open".
C10_RejectedAccessCloses ==
    [][rejectedReason' # NoReason =>
          /\ rejectedReason = NoReason => status' = "closed"
          /\ connectionAppId' = Null
          /\ status' # "open"]_vars

\* C11: starting from a status other than "closed", a step changes status
\* only along idle->loading, loading->open, loading->idle, open->idle,
\* open->loading or to "closed"; never idle->open.
C11_StatusTransitions ==
    [][(status # "closed" /\ status' # status) =>
          \/ status' = "closed"
          \/ <<status, status'>> \in {<<"idle", "loading">>, <<"loading", "open">>,
                                      <<"loading", "idle">>, <<"open", "idle">>,
                                      <<"open", "loading">>}]_vars

\* C12, as stated: whenever a response carrying the correlation id of a call
\* that is waiting with its timeout pending arrives, the call resolves with
\* the body of that response and the timeout is cancelled.
C12_ResponseAlwaysResolves ==
    [][\A s \in 1..MaxSockets, r \in 1..MaxRequests, body \in ResponseBodies :
          (/\ calls[r].at = "waiting" /\ calls[r].timer
           /\ ReceiveResponse(s, r, body))
          => calls'[r] = [calls[r] EXCEPT !.at = "settled", !.outcome = body,
                                          !.timer = FALSE]]_vars

\* C12, amended: a settled call keeps its outcome whatever arrives or fires
\* later; a call that resolved or timed out has no timeout pending; a
\* response that arrives while ConnectionAppId equals ClientAppId and the
\* request is still registered resolves the waiting call with its body and
\* cancels the timeout; a timeout that fires first rejects it.
C12_OneOutcome ==
    [][\A r \in 1..MaxRequests :
          /\ calls[r].at = "settled" => calls'[r] = calls[r]
          /\ calls'[r].at = "settled" /\ calls'[r].outcome # "sendError"
                => ~calls'[r].timer
          /\ \A s \in 1..MaxSockets, body \in ResponseBodies :
                (/\ calls[r].at = "waiting" /\ calls[r].timer /\ r \in requests
                 /\ connectionAppId # Null /\ connectionAppId = clientAppId
                 /\ ReceiveResponse(s, r, body))
                => calls'[r] = [calls[r] EXCEPT !.at = "settled", !.outcome = body,
                                                !.timer = FALSE]
          /\ (calls[r].at = "waiting" /\ RequestTimeoutFires(r))
                => calls'[r] = [calls[r] EXCEPT !.at = "settled",
                                                !.outcome = "timeout",
                                                !.timer = FALSE]]_vars

\* A call that resolved with the body of its response.
C12_Witness ==
    \E r \in 1..MaxRequests :
        calls[r].at = "settled" /\ calls[r].outcome \in ResponseBodies

Stored(q) == SelectSeq(q, LAMBDA b : b # Hole)

Bodies(d) == [i \in DOMAIN d |-> d[i].body]

\* C13: the queue never holds more than MaxQueue entries, and the payloads
\* in it are the last MaxQueue of those pushed since the last clear, in
\* arrival order (a push beyond capacity drops exactly the oldest).
C13_QueueIsLastPushed ==
    /\ Len(messageQueue) <= MaxQueue
    /\ Stored(messageQueue) = LastN(lastPushed, MaxQueue)

\* More payloads than the capacity were pushed since the last clear, and the
\* oldest of them is gone.
C13_Witness ==
    /\ Len(lastPushed) = MaxQueue + 1
    /\ lastPushed[1] # lastPushed[2]
    /\ messageQueue = Tail(lastPushed)

IsPrefix(p, q) == Len(p) <= Len(q) /\ p = SubSeq(q, 1, Len(p))

\* C14: the buffered payloads a listener is called with all come during its
\* registration with queueCount k: they are at most k, they are payloads of
\* the queue from its front in queue order, and there are none when k = 0 or
\* the queue is empty; every other call of a listener carries the message
\* that arrives in that very step.
C14_ReplayOnceAtRegistration ==
    [][/\ \A i \in DOMAIN delivered' :
             IF delivered'[i].replay
             THEN /\ \E ignore \in BOOLEAN :
                        AddMessageListener(delivered'[i].to, delivered'[i].count, ignore)
                  /\ \A j \in DOMAIN delivered' : /\ delivered'[j].replay
                                                   /\ delivered'[j].to = delivered'[i].to
                  /\ Len(delivered') <= delivered'[i].count
                  /\ IsPrefix(Bodies(delivered'), Stored(messageQueue))
             ELSE \E s \in 1..MaxSockets : ReceiveApp(s, delivered'[i].body)
       /\ \A l \in 1..MaxListeners, k \in 0..MaxQueue, ignore \in BOOLEAN :
             (AddMessageListener(l, k, ignore) /\ (k = 0 \/ Stored(messageQueue) = <<>>))
             => delivered' = <<>>]_vars

\* A registration with queueCount 1 over a queue of two payloads: the
\* listener was called with one.
C14_Witness ==
    /\ Len(delivered) = 1
    /\ delivered[1].replay /\ delivered[1].count = 1
    /\ Len(Stored(messageQueue)) = 2

\* C15: a response whose correlation id has no pending request, received
\* while ConnectionAppId equals ClientAppId, throws nothing, calls no message
\* listener and leaves status, the queue, the pending requests, the calls and
\* ConnectionAppId as they were.
C15_UnmatchedResponseIgnored ==
    [][\A s \in 1..MaxSockets, r \in 1..MaxRequests, body \in ResponseBodies :
          (/\ connectionAppId # Null /\ connectionAppId = clientAppId
           /\ r \notin requests
           /\ ReceiveResponse(s, r, body))
          => /\ errors' = {} /\ delivered' = <<>> /\ notified' = <<>>
             /\ UNCHANGED <<status, messageQueue, requests, calls, connectionAppId,
                            clientAppId, tasks>>]_vars

\* A response was ignored for want of a pending request while a listener of
\* the host was registered.
C15_Witness ==
    /\ dropped
    /\ \E l \in 1..MaxListeners : msgListeners[l].on

GuardErrors == {"currentAppUnknown", "appIdsDiffer"}

\* C16: an envelope that is neither an access response nor a heartbeat,
\* received while ConnectionAppId is null or differs from ClientAppId, makes
\* onMessage throw and changes nothing: the queue, the listeners' calls, the
\* requests and their calls, status and the tasks stay as they were.
C16_GuardedEnvelopeRejected ==
    [][\A s \in 1..MaxSockets :
          (/\ connectionAppId = Null \/ connectionAppId # clientAppId
           /\ \/ \E body \in Payloads : ReceiveApp(s, body)
              \/ \E r \in 1..MaxRequests, body \in ResponseBodies :
                    ReceiveResponse(s, r, body)
              \/ ReceiveOther(s))
          => /\ errors' \in {{e} : e \in GuardErrors}
             /\ delivered' = <<>> /\ notified' = <<>> /\ ~dropped'
             /\ UNCHANGED <<status, messageQueue, lastPushed, requests, calls,
                            connectionAppId, clientAppId, tasks>>]_vars

\* An envelope was rejected while a request was pending and a listener of the
\* host was registered.
C16_Witness ==
    /\ errors \cap GuardErrors # {}
    /\ requests # {}
    /\ \E r \in 1..MaxRequests : calls[r].at = "waiting"
    /\ msgListeners[1].on

Registered == {l \in 1..MaxListeners : msgListeners[l].on}

Called(d) == {d[i].to : i \in DOMAIN d}

\* C17: the empty initial message (the object with the __start key) is never
\* in the queue, and when it arrives it is delivered once to each listener
\* registered with ignoreEmptyInitialMessage = false and to no other; any
\* other message without a correlation id becomes the newest entry of the
\* queue and is delivered once to every registered listener.
C17_SentinelNotStored ==
    /\ [](\A i \in DOMAIN messageQueue : messageQueue[i] # EmptyInitial)
    /\ [][\A s \in 1..MaxSockets, body \in AllPayloads :
             (/\ connectionAppId # Null /\ connectionAppId = clientAppId
              /\ ReceiveApp(s, body))
             => /\ \A i \in DOMAIN delivered' :
                      delivered'[i].body = body /\ ~delivered'[i].replay
                /\ Len(delivered') = Cardinality(Called(delivered'))
                /\ IF body = EmptyInitial
                   THEN /\ messageQueue' = messageQueue
                        /\ Called(delivered') = {l \in Registered : ~msgListeners[l].ignore}
                   ELSE /\ Len(messageQueue') > 0
                        /\ messageQueue'[Len(messageQueue')] = body
                        /\ Called(delivered') = Registered]_vars

\* The empty initial message arrived with two listeners registered, one of
\* them ignoring it: the other one alone was called.
C17_Witness ==
    /\ Registered = 1..MaxListeners
    /\ Len(delivered) = 1
    /\ delivered[1].body = EmptyInitial
    /\ ~msgListeners[delivered[1].to].ignore
    /\ \E l \in Registered : msgListeners[l].ignore

PauseTasks(ts) == {i \in DOMAIN ts : ts[i].kind = "pause"}

\* C18: when a call of pause() made on a client that is not closed is over,
\* whether it sent its Lifecycle envelope or failed to, the queue holds no
\* payload: neither at the end of the step of a call that did not have to
\* wait for the socket, nor at the end of the step that ends a call that had
\* to.
C18_PauseEmptiesQueue ==
    [][/\ (status # "closed" /\ SetPaused(TRUE) /\ SocketReady(Cur) # "wait")
            => Stored(messageQueue') = <<>>
       /\ Cardinality(PauseTasks(tasks')) < Cardinality(PauseTasks(tasks))
            => Stored(messageQueue') = <<>>]_vars

\* The procedure with history h sent its Lifecycle envelope after it got its
\* accepted access response.
LifecycleAfterAccess(h) ==
    \E i, j \in DOMAIN h : i < j /\ h[i] = "access" /\ h[j] = "lcy"

\* C19: no step of setApp, of the negotiation, of the transport or of a
\* visibility change alters the Paused flag, and whenever the status
\* listeners are told "open", the procedure that tells them has sent a
\* Lifecycle envelope, with the Paused value of that moment, after its
\* accepted access response.
C19_LifecycleBeforeOpen ==
    /\ [][paused' = paused]_vars
    /\ [](\A k \in DOMAIN notified :
             notified[k].status = "open" => LifecycleAfterAccess(notified[k].hist))

\* A call whose promise is resolved with the body of a response.
Resolved(call) == call.at = "settled" /\ call.outcome \in ResponseBodies

\* C20: the step of a setApp with an app id leaves the queue and the request
\* table empty and ConnectionAppId null; hence, while an app is requested,
\* the queue holds payloads only when ConnectionAppId is that app, and a
\* response resolves only a request that was issued under the
\* ConnectionAppId of the moment of the response.
C20_ProcedureStartResets ==
    /\ [][\A appId \in Apps :
             SetApp(appId) => /\ messageQueue' = <<>>
                              /\ requests' = {}
                              /\ connectionAppId' = Null]_vars
    /\ [](clientAppId # Null /\ Stored(messageQueue) # <<>>
             => connectionAppId = clientAppId)
    /\ [][\A r \in 1..MaxRequests :
             (Resolved(calls'[r]) /\ ~Resolved(calls[r]) /\ calls[r].app # Null)
             => calls[r].app = connectionAppId]_vars

\* C21: the step in which the page becomes hidden leaves status and the
\* reopen timers as they were and this.socket neither connecting nor open;
\* the step in which it becomes visible again with an app requested leaves a
\* new connecting socket, status "loading", ConnectionAppId null and the
\* queue empty; and status becomes "open" for a requested app only with
\* ConnectionAppId set to it (an access response accepted since) in the step
\* of an application message or with one buffered (a message arrived since).
C21_HiddenClosesVisibleRestarts ==
    [][/\ (VisibilityChange /\ ~hidden)
            => /\ status' = status
               /\ reopenTimers' = reopenTimers
               /\ socket' # 0 => socks'[socket'].rs \notin {"connecting", "open"}
       /\ (VisibilityChange /\ hidden /\ clientAppId # Null)
            => /\ socket' # 0 /\ socks'[socket'].rs = "connecting"
               /\ status' = "loading"
               /\ connectionAppId' = Null
               /\ messageQueue' = <<>>
               /\ \E i \in DOMAIN tasks' :
                     tasks'[i].kind = "conn" /\ ~tasks'[i].superseded
       /\ (status' = "open" /\ status # "open" /\ clientAppId' # Null)
            => /\ connectionAppId' = clientAppId'
               /\ \/ \E s \in 1..MaxSockets, body \in Payloads : ReceiveApp(s, body)
                  \/ Stored(messageQueue') # <<>>]_vars

\* The page was hidden while the connection was open: the socket is closing
\* or closed, status is still "open" and no reopen is scheduled.
C21_Witness ==
    /\ hidden /\ status = "open"
    /\ socket # 0 /\ socks[socket].rs \in {"closing", "closed"}
    /\ reopenTimers = 0

\* The procedures that wait for an access response or a first message.
CancellableWaits(ts) == {i \in DOMAIN ts : ts[i].pc \in {"accessWait", "firstWait"}}

\* C22: the step in which status becomes "closed" rejects every wait in
\* flight with the connection-closed error: no procedure is left waiting for
\* an access response or a first message, one that was waiting when
\* unmount() or the loading timeout closed the client threw that error, and
\* every sendRequest that was waiting for its response is settled, neither
\* resolved nor timed out.
C22_ClosedRejectsWaits ==
    [][(status' = "closed" /\ status # "closed") =>
          /\ CancellableWaits(tasks') = {}
          /\ (CancellableWaits(tasks) # {} /\ (Unmount \/ LoadingTimeoutFires))
                => "closed" \in errors'
          /\ \A r \in 1..MaxRequests :
                calls[r].at = "waiting" =>
                    /\ calls'[r].at = "settled"
                    /\ calls'[r].outcome \notin ResponseBodies \cup {"timeout"}]_vars

\* C23: whenever a status listener is called with {status: s} the status
\* field it reads is s; and the step in which status becomes "closed" calls
\* the host's listener, if one is registered, with "closed" before the
\* registry is emptied, and leaves no procedure's status listener waiting.
C23_StatusBeforeNotification ==
    /\ [](\A k \in DOMAIN notified : notified[k].seen = notified[k].status)
    /\ [][(status' = "closed" /\ status # "closed") =>
             /\ statusListeners =>
                   /\ \E k \in DOMAIN notified' : notified'[k].status = "closed"
                   /\ ~statusListeners'
             /\ \A i \in DOMAIN tasks' : ~Listening(tasks'[i])]_vars

\* The host's status listener was called with "closed" and is no longer
\* registered.
C23_Witness ==
    /\ status = "closed" /\ ~statusListeners
    /\ \E k \in DOMAIN notified : notified[k].status = "closed"


\* C24: no stale timer or listener survives the end of an app-connection
\* procedure: when no procedure is in flight any more the loading timeout is
\* disarmed and no access callback is left set, a procedure that has been
\* settled no longer listens, and the cleanup of an earlier procedure never
\* disarms the loading timeout of the procedure a setApp call has just
\* started.
C24_NoStaleTimerOrListener ==
    /\ [](/\ ConnTasks = {} => ~loadingTimeout
          /\ \A i \in DOMAIN tasks :
                tasks[i].accessCb => tasks[i].pc = "accessWait" /\ tasks[i].settled = "none")
    /\ [][\A appId \in Apps :
             (SetApp(appId) /\ \E i \in DOMAIN tasks' :
                                   tasks'[i].kind = "conn" /\ ~tasks'[i].superseded)
                 => loadingTimeout']_vars


\* C25: a pending request leaves the request table as soon as it is resolved
\* by a response or rejected by its timeout: a request that has had either
\* outcome has no entry in the table, so a second response with its id is
\* an unmatched one.
C25_SettledRequestRemoved ==
    \A r \in 1..MaxRequests :
        (calls[r].at = "settled" /\ calls[r].outcome \in ResponseBodies \cup {"timeout"})
            => r \notin requests


\* C26: when the queue holds more than k payloads, a registration with
\* queueCount k replays the k most recently buffered payloads, in queue
\* order, and not the k oldest ones.
C26_ReplayMostRecent ==
    [][\A l \in 1..MaxListeners, k \in 1..MaxQueue, ignore \in BOOLEAN :
          (AddMessageListener(l, k, ignore) /\ Len(Stored(messageQueue)) > k)
              => Bodies(delivered') =
                     SubSeq(Stored(messageQueue),
                            Len(Stored(messageQueue)) - k + 1,
                            Len(Stored(messageQueue)))]_vars


\* C27: status "open" implies a confirmed connection: whenever status is
\* "open", ConnectionAppId is non-null and equal to ClientAppId.
C27_OpenImpliesConfirmed ==
    status = "open" => (connectionAppId # Null /\ connectionAppId = clientAppId)


\* C28: no ApplicationClient envelope is put on the transport while
\* ConnectionAppId is null: a sendMessage or sendRequest call made with a
\* null ConnectionAppId fails with an error and sends nothing, and no step
\* that sends an ApplicationClient envelope ends with ConnectionAppId null.
C28_NoClientEnvelopeBeforeNegotiation ==
    /\ [](\A e \in sent : e.type = "cap" => connectionAppId # Null)
    /\ [][/\ (SendMessage /\ connectionAppId = Null)
               => (errors' # {} /\ sent' = {})
          /\ \A r \in 1..MaxRequests :
               (SendRequest(r) /\ connectionAppId = Null)
                   => /\ errors' # {} /\ sent' = {}
                      /\ calls'[r].at = "settled" /\ calls'[r].outcome = "sendError"]_vars


\* C29: Connect envelopes come from a single active negotiation: at most one
\* connect-polling interval is armed at any time, a Connect envelope is put
\* on the transport only while status is "loading" and no access response
\* has been accepted, and every Connect envelope names a non-null app equal
\* to the current ClientAppId.
C29_ConnectFromSingleNegotiation ==
    /\ Cardinality({i \in DOMAIN tasks : IntervalArmed(tasks[i])}) <= 1
    /\ \A e \in sent :
          e.type = "con" => /\ status = "loading" /\ connectionAppId = Null
                            /\ e.app # Null /\ e.app = clientAppId


\* C30: the transport survives suspension: after mount, while the client has
\* not been closed and the host is visible, some socket is connecting or
\* open or a reopen is scheduled; and a setApp(id) call made then, with no
\* reopen still to come, does not fail because no socket is available.
C30_TransportSurvivesSuspension ==
    /\ []((mounted /\ visListener /\ status # "closed" /\ ~hidden)
             => \/ \E s \in 1..MaxSockets : socks[s].rs \in {"connecting", "open"}
                \/ reopenTimers > 0)
    /\ [][\A appId \in Apps :
             (/\ SetApp(appId)
              /\ mounted /\ visListener /\ status # "closed" /\ ~hidden
              /\ reopenTimers = 0)
                 => "socketUnavailable" \notin errors']_vars

====
